---- MODULE Spec2Model ----
(***************************************************************************)
(* A model of Lakeshore_Model331.py: the device handle (construction,       *)
(* load_configuration), the command protocol (send_scip_command), the       *)
(* transport session (_send_raw_scip_command), the typed reader             *)
(* (read_kelvin) and the dictionary flattener (_ravel_dictionary).          *)
(*                                                                          *)
(* Text is modelled as a sequence of one-character strings.                 *)
(***************************************************************************)
EXTENDS Integers, Sequences, FiniteSets, TLC

\* ------------------------------------------------------------------ bounds
\* Longest raw response line the instrument side produces.
MaxLen == 2
\* Deepest nesting of the dictionaries handed to _ravel_dictionary.
MaxDepth == 1

\* --------------------------------------------------------------- constants
DEFAULT_TIMEOUT == 5
ValidBaudrates == {300, 1200, 9600}
DefaultBaudrate == 9600

CR == "\r"
LF == "\n"
SP == " "

\* ----------------------------------------------------------- input domains
\* Characters a response line is made of.
Chars == {CR, LF, SP, "7", ".", "X"}
\* Baud rates a caller may hand to the constructor.
BaudInputs == {0, 300, 1200, 2400, 9600}
\* Timeouts a caller may hand to the constructor: integers, as documented,
\* positive or not.
TimeoutInputs == {-1, 0, 3}
Ports == {"COM1"}
\* Channel arguments of read_kelvin.
LetterInputs ==
  {<<"a">>, <<"A">>, <<"b">>, <<"B">>, <<"c">>, <<>>, <<"A", "B">>}
\* dtype arguments of read_kelvin: three builtin classes, a class whose
\* conversion of text always raises an Exception (bytes(str) is a TypeError),
\* a class whose constructor raises a BaseException that is no Exception
\* (SystemExit), and a value that is no class at all (None).
DTypes == {"str", "float", "int", "bytes", "Exiting", "None"}
\* Command strings handed to send_scip_command.
Commands == {<<"K", "R", "D", "G", "?", " ", "B">>, <<"X">>}

VARIABLES
  handle,       \* the Lakeshore_Model331 instance the caller holds
  pc,           \* position of the single-threaded caller
  call,         \* arguments of the operation in progress / last completed
  ser,          \* the serial.Serial session of the command in progress
  events,       \* what the session of the current command did, in order
  written,      \* bytes ser.write() put on the line during the command
  raw_responce, \* bytes ser.readline() returned
  result,       \* what the last operation returned or raised
  arg_dictionary,  \* _ravel_dictionary: the dictionary argument
  arg_conflict,    \* _ravel_dictionary: the conflict argument
  raveled,         \* _ravel_dictionary: what it returned or raised
  rpc              \* caller of _ravel_dictionary: "off", "ready" or "done"

vars == <<handle, pc, call, ser, events, written, raw_responce, result,
          arg_dictionary, arg_conflict, raveled, rpc>>

devvars == <<handle, pc, call, ser, events, written, raw_responce, result>>
ravelvars == <<arg_dictionary, arg_conflict, raveled, rpc>>

\* ------------------------------------------------------------ text helpers
\* str.upper() on the characters the model uses.
UpperChar(c) ==
  CASE c = "a" -> "A"
    [] c = "b" -> "B"
    [] c = "c" -> "C"
    [] OTHER -> c

upper(s) == [i \in 1..Len(s) |-> UpperChar(s[i])]

RECURSIVE lstrip(_, _)
lstrip(s, cs) ==
  IF s # <<>> /\ Head(s) \in cs THEN lstrip(Tail(s), cs) ELSE s

RECURSIVE rstrip(_, _)
rstrip(s, cs) ==
  IF s # <<>> /\ s[Len(s)] \in cs THEN rstrip(SubSeq(s, 1, Len(s) - 1), cs) ELSE s

\* str.strip(chars): leading and trailing characters of the set are removed.
strip(s, cs) == rstrip(lstrip(s, cs), cs)

\* --------------------------------------------------------- values returned
NoResult == [kind |-> "none", err |-> "", type |-> "", text |-> <<>>,
             neg |-> FALSE, coef |-> 0, exp |-> 0]
Raised(e) == [NoResult EXCEPT !.kind = "error", !.err = e]
StrValue(t) == [NoResult EXCEPT !.kind = "value", !.type = "str", !.text = t]
NumValue(ty, n, c, e) ==
  [NoResult EXCEPT !.kind = "value", !.type = ty, !.neg = n, !.coef = c, !.exp = e]
HandleValue == [NoResult EXCEPT !.kind = "value", !.type = "Lakeshore_Model331"]

\* -------------------------------------------------------- numeric parsing
Whitespace == {SP, CR, LF}
Digits == {"0", "7"}
DigitVal(c) == IF c = "7" THEN 7 ELSE 0

RECURSIVE Pow10(_)
Pow10(n) == IF n = 0 THEN 1 ELSE 10 * Pow10(n - 1)

RECURSIVE DigitsValue(_)
DigitsValue(s) ==
  IF s = <<>> THEN 0
  ELSE 10 * DigitsValue(SubSeq(s, 1, Len(s) - 1)) + DigitVal(s[Len(s)])

\* decimal.Decimal(text): surrounding whitespace is dropped, then an optional
\* sign and digits with at most one decimal point, at least one digit.
Decimal(text) ==
  LET s == strip(text, Whitespace)
      signed == s # <<>> /\ Head(s) \in {"+", "-"}
      body == IF signed THEN Tail(s) ELSE s
      points == {i \in 1..Len(body) : body[i] = "."}
      digs == {i \in 1..Len(body) : body[i] \in Digits}
      wellformed == /\ points \cup digs = 1..Len(body)
                    /\ Cardinality(points) <= 1
                    /\ digs # {}
      p == IF points = {} THEN Len(body) + 1 ELSE CHOOSE i \in points : TRUE
      ds == SubSeq(body, 1, p - 1) \o SubSeq(body, p + 1, Len(body))
  IN IF wellformed
       THEN [ok |-> TRUE, neg |-> (signed /\ Head(s) = "-"),
             coef |-> DigitsValue(ds), exp |-> IF points = {} THEN 0 ELSE Len(body) - p]
       ELSE [ok |-> FALSE, neg |-> FALSE, coef |-> 0, exp |-> 0]

\* A float has no trailing fractional zeros: 7.70 and 7.7 are one value.
RECURSIVE Normalize(_)
Normalize(d) ==
  IF d.exp > 0 /\ d.coef % 10 = 0
    THEN Normalize([d EXCEPT !.coef = d.coef \div 10, !.exp = d.exp - 1])
    ELSE d

\* dtype(x) as read_kelvin's type_funt applies it. raises is "" when the
\* conversion returned, else the class of what it raised.
type_funt(dtype, x) ==
  LET d == Decimal(x)
      f == Normalize(d)
  IN CASE dtype = "str" -> [raises |-> "", value |-> StrValue(x)]
       [] dtype = "float" ->
            IF d.ok THEN [raises |-> "", value |-> NumValue("float", f.neg, f.coef, f.exp)]
            ELSE [raises |-> "Exception", value |-> NoResult]
       [] dtype = "int" ->
            IF d.ok THEN [raises |-> "", value |-> NumValue("int", d.neg /\ (d.coef \div Pow10(d.exp)) # 0,
                                                            d.coef \div Pow10(d.exp), 0)]
            ELSE [raises |-> "Exception", value |-> NoResult]
       [] dtype = "bytes" -> [raises |-> "Exception", value |-> NoResult]
       [] OTHER -> [raises |-> "BaseException", value |-> NoResult]

\* ------------------------------------------------------ _ravel_dictionary
\* A dictionary is a function from its keys to entries; an entry is a leaf
\* value or a nested dictionary.
EmptyDict == << >>
Leaf(v) == [leaf |-> TRUE, v |-> v, d |-> EmptyDict]
Nested(d) == [leaf |-> FALSE, v |-> 0, d |-> d]

\* Keys of the model in the order sorted() gives them.
KeyOrder == <<"a", "baudrate", "port", "serial", "timeout", "z">>
KeyRank(k) == CHOOSE i \in 1..Len(KeyOrder) : KeyOrder[i] = k

\* str(conflict).lower()
lower(c) ==
  CASE c = "RAISE" -> "raise"
    [] c = "Superior" -> "superior"
    [] OTHER -> c

ConflictRules == {"raise", "superior", "inferior"}

\* {**a, **b}: the entries of b replace those of a.
Update(a, b) ==
  [k \in (DOMAIN a) \cup (DOMAIN b) |-> IF k \in DOMAIN b THEN b[k] ELSE a[k]]

\* A single collision goes unnoticed.
Intersects_Many(raveled_dictionary, temp) ==
  Cardinality((DOMAIN raveled_dictionary) \cap (DOMAIN temp)) > 1

\* len(raveled_dictionary.keys() & temp_dict.keys()) != 0
Intersects(raveled_dictionary, temp) ==
  Cardinality((DOMAIN raveled_dictionary) \cap (DOMAIN temp)) # 0

Returned(d) == [err |-> "", d |-> d]
Failed(e) == [err |-> e, d |-> EmptyDict]

RECURSIVE ravel_dictionary(_, _)
RECURSIVE RavelLoop(_, _, _, _)

\* A nested dictionary is kept as the value of its key.
temp_dict_NoRecursion(keydex, itemdex, conflict) ==
  Returned([k \in {keydex} |-> itemdex])

\* The fragment one entry contributes: the raveled nested dictionary, or the
\* entry itself.
temp_dict(keydex, itemdex, conflict) ==
  IF ~itemdex.leaf
    THEN ravel_dictionary(itemdex.d, conflict)
    ELSE Returned([k \in {keydex} |-> itemdex])

\* The for loop over sorted_dictionary; todo holds the keys not yet visited.
RavelLoop(dictionary, todo, raveled_dictionary, conflict) ==
  IF todo = {} THEN Returned(raveled_dictionary)
  ELSE
    LET keydex == CHOOSE k \in todo : \A j \in todo : KeyRank(k) <= KeyRank(j)
        temp == temp_dict(keydex, dictionary[keydex], conflict)
        rest == todo \ {keydex}
    IN IF temp.err # "" THEN temp
       ELSE IF Intersects(raveled_dictionary, temp.d)
         THEN CASE conflict = "raise" -> Failed("RuntimeError_conflict")
                [] conflict = "superior" ->
                     RavelLoop(dictionary, rest, Update(temp.d, raveled_dictionary), conflict)
                [] conflict = "inferior" ->
                     RavelLoop(dictionary, rest, Update(raveled_dictionary, temp.d), conflict)
                [] OTHER -> Failed("RuntimeError_unreachable")
         ELSE RavelLoop(dictionary, rest, Update(temp.d, raveled_dictionary), conflict)

ravel_dictionary(dictionary, conflict_arg) ==
  LET rule == lower(conflict_arg)
  IN IF rule \notin ConflictRules
       THEN Failed("RuntimeError_rule")
       ELSE RavelLoop(dictionary, DOMAIN dictionary, EmptyDict, rule)

\* Inputs of the flattener: every dictionary over Keys nested at most depth
\* levels, with leaf values from LeafValues.
Keys == {"a", "z"}
LeafValues == {1, 2}
ConflictInputs == {"raise", "superior", "inferior", "Superior", "merge"}

RECURSIVE Dicts(_)
Dicts(depth) ==
  LET entries == {Leaf(v) : v \in LeafValues}
                   \cup (IF depth = 0 THEN {} ELSE {Nested(d) : d \in Dicts(depth - 1)})
  IN UNION {[ks -> entries] : ks \in SUBSET Keys}

NoOutcome == [err |-> "none", d |-> EmptyDict]

InitRavelIdle ==
  /\ arg_dictionary = EmptyDict
  /\ arg_conflict = "raise"
  /\ raveled = NoOutcome
  /\ rpc = "off"

\* The caller applies _ravel_dictionary to the chosen input.
Ravel ==
  /\ rpc = "ready"
  /\ raveled' = ravel_dictionary(arg_dictionary, arg_conflict)
  /\ rpc' = "done"
  /\ UNCHANGED <<arg_dictionary, arg_conflict>>
  /\ UNCHANGED devvars

\* ------------------------------------------------------------- the handle
\* Class-level attributes of Lakeshore_Model331: what an attribute lookup
\* finds when the instance has not assigned it.
ClassAttributes ==
  [made |-> FALSE, port |-> "", baudrate |-> 0, bardrate |-> 0, timeout |-> 0,
   data |-> 0, parity |-> "None", startbits |-> 0, endbits |-> 0]

\* Any baud rate is accepted.
init_Unchecked(port, baudrate, timeout) ==
  [err |-> "",
   self |-> [ClassAttributes EXCEPT !.made = TRUE, !.port = port,
                                    !.bardrate = baudrate, !.timeout = timeout,
                                    !.data = 7, !.parity = "PARITY_ODD",
                                    !.startbits = 1, !.endbits = 1]]

\* __init__: raises for a baud rate outside the allowed set, else assigns the
\* instance attributes. The baud rate is assigned to _bardrate; _baudrate
\* keeps the class-level value.
init(port, baudrate, timeout) ==
  IF baudrate \notin ValidBaudrates
    THEN [err |-> "RuntimeError_baudrate", self |-> ClassAttributes]
    ELSE [err |-> "",
          self |-> [ClassAttributes EXCEPT !.made = TRUE, !.port = port,
                                           !.bardrate = baudrate, !.timeout = timeout,
                                           !.data = 7, !.parity = "PARITY_ODD",
                                           !.startbits = 1, !.endbits = 1]]

\* Configuration mappings a caller hands to load_configuration.
Configurations ==
  << [k \in {"port", "baudrate", "timeout"} |->
        CASE k = "port" -> Leaf("COM1") [] k = "baudrate" -> Leaf(9600) [] OTHER -> Leaf(3)],
     [k \in {"port", "baudrate", "timeout"} |->
        CASE k = "port" -> Leaf("COM1") [] k = "baudrate" -> Leaf(300) [] OTHER -> Leaf(0)],
     [k \in {"port", "baudrate", "timeout"} |->
        CASE k = "port" -> Leaf("COM1") [] k = "baudrate" -> Leaf(2400) [] OTHER -> Leaf(3)],
     [k \in {"port", "timeout"} |->
        CASE k = "port" -> Leaf("COM1") [] OTHER -> Leaf(3)],
     [k \in {"serial", "timeout"} |->
        CASE k = "serial" ->
               Nested([j \in {"port", "baudrate"} |->
                         IF j = "port" THEN Leaf("COM1") ELSE Leaf(1200)])
          [] OTHER -> Leaf(3)],
     [k \in {"baudrate", "serial", "timeout"} |->
        CASE k = "serial" ->
               Nested([j \in {"port", "baudrate"} |->
                         IF j = "port" THEN Leaf("COM1") ELSE Leaf(300)])
          [] k = "baudrate" -> Leaf(9600)
          [] OTHER -> Leaf(3)] >>

\* load_configuration up to the call of cls(): the error raised before it, or
\* the three arguments cls() is called with.
load_configuration(configuration, flat) ==
  LET config == IF flat THEN ravel_dictionary(configuration, "raise")
                        ELSE Returned(configuration)
  IN IF config.err # ""
       THEN [err |-> config.err, port |-> "", baudrate |-> 0, timeout |-> 0]
     ELSE IF ~({"port", "baudrate", "timeout"} \subseteq DOMAIN config.d)
       THEN [err |-> "KeyError", port |-> "", baudrate |-> 0, timeout |-> 0]
     ELSE [err |-> "", port |-> config.d["port"].v,
           baudrate |-> config.d["baudrate"].v, timeout |-> config.d["timeout"].v]

\* ----------------------------------------------------- the command protocol
Ascii(c) ==
  CASE c = LF -> 10 [] c = CR -> 13 [] c = SP -> 32 [] c = "+" -> 43 [] c = "-" -> 45
    [] c = "." -> 46 [] c = "0" -> 48 [] c = "7" -> 55 [] c = "?" -> 63
    [] c = "A" -> 65 [] c = "B" -> 66 [] c = "C" -> 67 [] c = "D" -> 68
    [] c = "G" -> 71 [] c = "K" -> 75 [] c = "R" -> 82 [] c = "X" -> 88
    [] c = "a" -> 97 [] c = "b" -> 98 [] c = "c" -> 99

AsciiChars == {LF, CR, SP, "+", "-", ".", "0", "7", "?", "A", "B", "C", "D", "G",
               "K", "R", "X", "a", "b", "c"}

\* bytearray(text, sys.getdefaultencoding()) and bytes.decode(...) on ASCII.
encode(text) == [i \in 1..Len(text) |-> Ascii(text[i])]
decode(bytes) == [i \in 1..Len(bytes) |-> CHOOSE c \in AsciiChars : Ascii(c) = bytes[i]]

\* send_scip_command, before the transport: the bytes handed down.
bytecommand_of(command) == encode(command \o <<LF>>)

\* Only the trailing terminator is removed.
responce_of_rstrip(raw) == rstrip(decode(raw), {CR, LF})

\* send_scip_command, after the transport: the text handed back.
responce_of(raw) == strip(decode(raw), {CR, LF})

\* 'KRDG? {input}'.format(input=input_letter)
krdg_command(input_letter) == <<"K", "R", "D", "G", "?", " ">> \o input_letter

\* The channel is compared as given.
checked_letter_AsGiven(input_letter) == input_letter

\* str(input_letter).upper()
checked_letter(input_letter) == upper(input_letter)

\* issubclass(dtype, int) raises TypeError when dtype is no class.
IsClass(dtype) == dtype # "None"

\* read_kelvin from the conversion on: try / except Exception / finally return.
\* A BaseException that is no Exception skips the except clause, so the
\* return in the finally clause reads an unbound local.
read_kelvin_convert(dtype, str_responce) ==
  LET conv == type_funt(dtype, str_responce)
  IN CASE conv.raises = "" -> conv.value
       [] conv.raises = "Exception" -> StrValue(str_responce)
       [] OTHER -> Raised("UnboundLocalError")

\* ---------------------------------------------------- the transport session
NoSession ==
  [is_open |-> FALSE, port |-> "", baudrate |-> 0, bytesize |-> 0, parity |-> "None",
   stopbits |-> 0, timeout |-> 0]

\* serial.Serial(port=self._port, baudrate=self._baudrate, ...)
SerialOpen(self) ==
  [is_open |-> TRUE, port |-> self.port, baudrate |-> self.baudrate,
   bytesize |-> self.data, parity |-> self.parity, stopbits |-> self.endbits,
   timeout |-> self.timeout]

\* The session is left as it is.
SessionExit_Leak(s) == s

\* Leaving the with block, normally or by an exception, closes the session.
SessionExit(s) == [s EXCEPT !.is_open = FALSE]

\* _send_raw_scip_command returns or raises: its local ser goes out of scope,
\* and what remains of the session is whether the port is still held.
OutOfScope(s) == [NoSession EXCEPT !.is_open = s.is_open]

\* Only a negative timeout is replaced.
TimeoutNotPositive_Negative(s) == s.timeout < 0

\* if (ser.timeout <= 0)
TimeoutNotPositive(s) == s.timeout <= 0

\* What the session did, with the session timeout in effect right after.
Event(name, s) == [ev |-> name, timeout |-> s.timeout]

\* The lines ser.readline() can return: bytes up to and including the first
\* newline, or fewer when the read timed out.
Lines ==
  LET bytes == {Ascii(c) : c \in Chars}
  IN {l \in UNION {[1..n -> bytes] : n \in 0..MaxLen} :
        \A i \in 1..(Len(l) - 1) : l[i] # Ascii(LF)}

NoCall ==
  [op |-> "none", input_letter |-> <<>>, dtype |-> "", command |-> <<>>,
   port |-> "", baudrate |-> 0, timeout |-> 0, cfg |-> 0, flat |-> FALSE,
   reached |-> FALSE]

InitDevice ==
  /\ handle = ClassAttributes
  /\ pc = "idle"
  /\ call = NoCall
  /\ ser = NoSession
  /\ events = <<>>
  /\ written = <<>>
  /\ raw_responce = <<>>
  /\ result = NoResult

\* ------------------------------------------------------------- operations
\* A new operation starts with nothing observed of its session yet.
FreshCommand ==
  /\ events' = <<>>
  /\ written' = <<>>
  /\ raw_responce' = <<>>

\* Lakeshore_Model331(port, baudrate, timeout)
Construct(port, baudrate, timeout) ==
  /\ pc = "idle"
  /\ FreshCommand
  /\ LET r == init(port, baudrate, timeout)
     IN /\ call' = [NoCall EXCEPT !.op = "init", !.port = port, !.baudrate = baudrate,
                                  !.timeout = timeout, !.reached = TRUE]
        /\ handle' = IF r.err = "" THEN r.self ELSE handle
        /\ result' = IF r.err = "" THEN HandleValue ELSE Raised(r.err)
  /\ UNCHANGED <<pc, ser>>
  /\ UNCHANGED ravelvars

\* Lakeshore_Model331(port): the default baud rate and timeout.
ConstructDefault(port) ==
  /\ Construct(port, DefaultBaudrate, DEFAULT_TIMEOUT)

\* Lakeshore_Model331.load_configuration(configuration, _flat)
LoadConfiguration(i, flat) ==
  /\ pc = "idle"
  /\ FreshCommand
  /\ LET c == load_configuration(Configurations[i], flat)
         r == init(c.port, c.baudrate, c.timeout)
     IN /\ call' = [NoCall EXCEPT !.op = "load_configuration", !.cfg = i, !.flat = flat,
                                  !.port = c.port, !.baudrate = c.baudrate,
                                  !.timeout = c.timeout, !.reached = (c.err = "")]
        /\ handle' = IF c.err = "" /\ r.err = "" THEN r.self ELSE handle
        /\ result' = IF c.err # "" THEN Raised(c.err)
                     ELSE IF r.err # "" THEN Raised(r.err)
                     ELSE HandleValue
  /\ UNCHANGED <<pc, ser>>
  /\ UNCHANGED ravelvars

\* read_kelvin(input_letter, dtype) up to the call of send_scip_command.
ReadKelvin(input_letter, dtype) ==
  /\ pc = "idle"
  /\ handle.made
  /\ FreshCommand
  /\ LET letter == checked_letter(input_letter)
     IN IF letter \notin {<<"A">>, <<"B">>}
          THEN /\ result' = Raised("RuntimeError_input_letter")
               /\ call' = [NoCall EXCEPT !.op = "read_kelvin", !.input_letter = input_letter,
                                         !.dtype = dtype, !.timeout = handle.timeout]
               /\ pc' = "idle"
        ELSE IF ~IsClass(dtype)
          THEN /\ result' = Raised("TypeError")
               /\ call' = [NoCall EXCEPT !.op = "read_kelvin", !.input_letter = input_letter,
                                         !.dtype = dtype, !.timeout = handle.timeout]
               /\ pc' = "idle"
        ELSE /\ result' = NoResult
             /\ call' = [NoCall EXCEPT !.op = "read_kelvin", !.input_letter = input_letter,
                                       !.dtype = dtype, !.timeout = handle.timeout,
                                       !.command = krdg_command(letter), !.reached = TRUE]
             /\ pc' = "open"
  /\ UNCHANGED <<handle, ser>>
  /\ UNCHANGED ravelvars

\* send_scip_command(command) up to the call of _send_raw_scip_command.
Send(command) ==
  /\ pc = "idle"
  /\ handle.made
  /\ FreshCommand
  /\ call' = [NoCall EXCEPT !.op = "send", !.command = command, !.timeout = handle.timeout,
                            !.reached = TRUE]
  /\ result' = NoResult
  /\ pc' = "open"
  /\ UNCHANGED <<handle, ser>>
  /\ UNCHANGED ravelvars

\* with serial.Serial(...) as ser: the port opens.
Open ==
  /\ pc = "open"
  /\ ser' = SerialOpen(handle)
  /\ events' = Append(events, Event("open", ser'))
  /\ pc' = "write"
  /\ UNCHANGED <<handle, call, written, raw_responce, result>>
  /\ UNCHANGED ravelvars

\* serial.Serial(...) raises: no session exists.
OpenFault ==
  /\ pc = "open"
  /\ result' = Raised("SerialException")
  /\ pc' = "idle"
  /\ UNCHANGED <<handle, call, ser, events, written, raw_responce>>
  /\ UNCHANGED ravelvars

\* ser.write(bytecommand)
Write ==
  /\ pc = "write"
  /\ written' = written \o bytecommand_of(call.command)
  /\ events' = Append(events, Event("write", ser))
  /\ pc' = "check"
  /\ UNCHANGED <<handle, call, ser, raw_responce, result>>
  /\ UNCHANGED ravelvars

\* An exception inside the with block: the session is left, then it propagates.
Fault ==
  /\ ser' = OutOfScope(SessionExit(ser))
  /\ events' = Append(events, Event("close", SessionExit(ser)))
  /\ result' = Raised("SerialException")
  /\ pc' = "idle"
  /\ UNCHANGED <<handle, call, written, raw_responce>>
  /\ UNCHANGED ravelvars

\* ser.write raises.
WriteFault ==
  /\ pc = "write"
  /\ Fault

\* ser.timeout = DEFAULT_TIMEOUT, in the branch for a timeout that is not positive.
FallbackTimeout ==
  /\ pc = "check"
  /\ TimeoutNotPositive(ser)
  /\ ser' = [ser EXCEPT !.timeout = DEFAULT_TIMEOUT]
  /\ events' = Append(events, Event("set_timeout", ser'))
  /\ pc' = "readline_fallback"
  /\ UNCHANGED <<handle, call, written, raw_responce, result>>
  /\ UNCHANGED ravelvars

AtReadline ==
  \/ pc = "check" /\ ~TimeoutNotPositive(ser)
  \/ pc = "readline_fallback"

\* responce = ser.readline(), in either branch.
Readline(line) ==
  /\ AtReadline
  /\ raw_responce' = line
  /\ events' = Append(events, Event("readline", ser))
  /\ pc' = IF pc = "readline_fallback" THEN "restore" ELSE "exit"
  /\ UNCHANGED <<handle, call, ser, written, result>>
  /\ UNCHANGED ravelvars

\* ser.readline raises.
ReadFault ==
  /\ AtReadline
  /\ Fault

\* ser.timeout = self._timeout
RestoreTimeout ==
  /\ pc = "restore"
  /\ ser' = [ser EXCEPT !.timeout = handle.timeout]
  /\ events' = Append(events, Event("set_timeout", ser'))
  /\ pc' = "exit"
  /\ UNCHANGED <<handle, call, written, raw_responce, result>>
  /\ UNCHANGED ravelvars

\* The with block ends, _send_raw_scip_command returns the line,
\* send_scip_command decodes and strips it, read_kelvin converts it.
ExitAndReturn ==
  /\ pc = "exit"
  /\ ser' = OutOfScope(SessionExit(ser))
  /\ events' = Append(events, Event("close", SessionExit(ser)))
  /\ result' = IF call.op = "read_kelvin"
                 THEN read_kelvin_convert(call.dtype, responce_of(raw_responce))
                 ELSE StrValue(responce_of(raw_responce))
  /\ pc' = "idle"
  /\ UNCHANGED <<handle, call, written, raw_responce>>
  /\ UNCHANGED ravelvars

Init == InitDevice /\ InitRavelIdle

Next ==
  \/ \E port \in Ports, baudrate \in BaudInputs, timeout \in TimeoutInputs :
       Construct(port, baudrate, timeout)
  \/ \E port \in Ports : ConstructDefault(port)
  \/ \E i \in 1..Len(Configurations), flat \in BOOLEAN : LoadConfiguration(i, flat)
  \/ \E input_letter \in LetterInputs, dtype \in DTypes : ReadKelvin(input_letter, dtype)
  \/ \E command \in Commands : Send(command)
  \/ Open
  \/ OpenFault
  \/ Write
  \/ WriteFault
  \/ FallbackTimeout
  \/ \E line \in Lines : Readline(line)
  \/ ReadFault
  \/ RestoreTimeout
  \/ ExitAndReturn

Spec == Init /\ [][Next]_vars

\* The flattener on its own: every bounded input under every conflict argument.
InitRavel ==
  /\ InitDevice
  /\ arg_dictionary \in Dicts(MaxDepth)
  /\ arg_conflict \in ConflictInputs
  /\ raveled = NoOutcome
  /\ rpc = "ready"

NextRavel == Ravel

SpecRavel == InitRavel /\ [][NextRavel]_vars

\* ================================================================ properties
EventNames == [i \in 1..Len(events) |-> events[i].ev]
Count(name) == Cardinality({i \in 1..Len(events) : events[i].ev = name})
\* The session's steps without the timeout assignments.
IOEvents == SelectSeq(EventNames, LAMBDA e : e # "set_timeout")
CommandDone == pc = "idle" /\ call.op \in {"send", "read_kelvin"} /\ call.reached

\* C1: every session opened on a constructed handle is configured with the
\* baud rate that construction validated, so the baud rate in use is one of
\* 300, 1200, 9600 in every reachable state.
C1_SessionBaudrateIsValidated ==
  ser.is_open => /\ ser.baudrate \in {300, 1200, 9600}
                 /\ ser.baudrate = handle.bardrate

\* C2: a command's session does at most one write and one line-read, the read
\* only after the write, a command that did not fault did exactly open, write,
\* readline, close in this order, and whenever the caller is back in control
\* (the command returned or raised) the connection is released.
C2_OneWriteOneReadThenRelease ==
  /\ Count("open") <= 1 /\ Count("write") <= 1 /\ Count("readline") <= 1
  /\ \A i \in 1..Len(events) :
       events[i].ev = "readline" => \E j \in 1..(i - 1) : events[j].ev = "write"
  /\ ser.is_open <=> pc \in {"write", "check", "readline_fallback", "restore", "exit"}
  /\ pc = "idle" => ~ser.is_open
  /\ pc = "idle" /\ Count("open") = 1 =>
       Count("close") = 1 /\ events[Len(events)].ev = "close"
  /\ CommandDone /\ result.err # "SerialException" =>
       IOEvents = <<"open", "write", "readline", "close">>

\* C2 witness: the read faulted after the write, and the connection is released.
C2_Witness ==
  /\ pc = "idle" /\ result.err = "SerialException"
  /\ IOEvents = <<"open", "write", "close">>
  /\ ~ser.is_open

\* C3: once read_kelvin has received the response it does not fail, and a
\* conversion that fails for any reason yields the trimmed response text as a
\* string.
C3_ConversionFailureFallsBack ==
  /\ pc = "idle" /\ call.op = "read_kelvin"
  /\ Count("readline") = 1 /\ result.err # "SerialException"
  => /\ result.kind = "value"
     /\ type_funt(call.dtype, responce_of(raw_responce)).raises # ""
          => result = StrValue(responce_of(raw_responce))

\* The channels the claim accepts.
UppercaseIsAorB(l) == Len(l) = 1 /\ l[1] \in {"a", "A", "b", "B"}
KRDG(l) == IF l[1] \in {"a", "A"}
             THEN <<75, 82, 68, 71, 63, 32, 65, 10>>
             ELSE <<75, 82, 68, 71, 63, 32, 66, 10>>

\* C4: a channel whose uppercase form is not A or B makes read_kelvin fail with
\* the invalid-argument error with no session opened and nothing written; for
\* a, A, b, B the channel is accepted and what is written is KRDG? A\n or
\* KRDG? B\n with the uppercase letter.
C4_ChannelValidatedBeforeIO ==
  call.op = "read_kelvin" =>
    IF ~UppercaseIsAorB(call.input_letter)
      THEN /\ pc = "idle"
           /\ result = Raised("RuntimeError_input_letter")
           /\ events = <<>> /\ written = <<>> /\ ~ser.is_open
      ELSE /\ result.err # "RuntimeError_input_letter"
           /\ written \in {<<>>, KRDG(call.input_letter)}
           /\ Count("write") = 1 => written = KRDG(call.input_letter)

\* C4 witness: a rejected channel, nothing opened or written.
C4_Witness ==
  /\ pc = "idle" /\ call.op = "read_kelvin" /\ call.input_letter = <<"c">>
  /\ result = Raised("RuntimeError_input_letter")
  /\ events = <<>> /\ written = <<>>

\* The longest prefix of r that does not end in CR or LF.
TrimTrailing(r) ==
  LET ends == {k \in 0..Len(r) : k = 0 \/ r[k] \notin {13, 10}}
  IN SubSeq(r, 1, CHOOSE k \in ends : \A j \in ends : j <= k)

\* r without its leading and its trailing CR and LF.
TrimBothEnds(r) ==
  LET keep == {k \in 1..Len(r) : r[k] \notin {13, 10}}
  IN IF keep = {} THEN <<>>
     ELSE SubSeq(r, CHOOSE k \in keep : \A j \in keep : k <= j,
                    CHOOSE k \in keep : \A j \in keep : j <= k)

\* C5 as stated: send writes the command and one newline and returns the raw
\* response with only its trailing CR and LF removed.
C5_OnlyTrailingTerminatorRemoved ==
  pc = "idle" /\ call.op = "send" /\ result.kind = "value" =>
    /\ written = encode(call.command) \o <<10>>
    /\ encode(result.text) = TrimTrailing(raw_responce)

\* C5 amended: send writes the command and one newline and returns the raw
\* response with its leading and its trailing CR and LF removed, and nothing
\* else removed.
C5_LeadingAndTrailingTerminatorRemoved ==
  pc = "idle" /\ call.op = "send" /\ result.kind = "value" =>
    /\ written = encode(call.command) \o <<10>>
    /\ result.type = "str"
    /\ encode(result.text) = TrimBothEnds(raw_responce)

\* C5 witness: the response CR X came back as X.
C5_Witness ==
  /\ pc = "idle" /\ call.op = "send"
  /\ raw_responce = <<13, 88>>
  /\ result = StrValue(<<"X">>)

ConstructorStep ==
  pc = "idle" /\ pc' = "idle" /\ call'.op \in {"init", "load_configuration"} /\ call'.reached

\* C6: a construction (direct, or reached through load_configuration) with a
\* baud rate outside 300, 1200, 9600 raises the invalid-configuration error,
\* leaves the caller's handle and the connection untouched and attempts no
\* connection; with one of the three it returns a handle.
C6_BaudrateValidatedAtConstruction ==
  [][ConstructorStep =>
       IF call'.baudrate \in {300, 1200, 9600}
         THEN /\ result' = HandleValue
              /\ handle'.made /\ handle'.port = call'.port
              /\ handle'.timeout = call'.timeout
              /\ events' = <<>> /\ ser' = ser
         ELSE /\ result' = Raised("RuntimeError_baudrate")
              /\ handle' = handle
              /\ events' = <<>> /\ ser' = ser]_vars

\* C6 witness: load_configuration reached the constructor with 2400 baud.
C6_Witness ==
  /\ call.op = "load_configuration" /\ call.reached /\ call.baudrate = 2400
  /\ result = Raised("RuntimeError_baudrate")
  /\ ~handle.made /\ events = <<>>

\* C10: the line-read runs with the session timeout at the handle's timeout
\* when that is positive and at 5 otherwise, after the write; after a read
\* under the fallback the session timeout is set back to the handle's; a
\* positive timeout is never reassigned; the handle's timeout is the one the
\* command started with.
C10_FallbackTimeoutForRead ==
  call.op \in {"send", "read_kelvin"} =>
    /\ handle.timeout = call.timeout
    /\ \A i \in 1..Len(events) :
         events[i].ev = "readline" =>
           /\ events[i].timeout = IF handle.timeout > 0 THEN handle.timeout ELSE 5
           /\ events[i].timeout > 0
           /\ \E j \in 1..(i - 1) : events[j].ev = "write"
           /\ handle.timeout <= 0
                /\ (pc = "exit" \/ (CommandDone /\ result.err # "SerialException"))
                => /\ Len(events) > i
                   /\ events[i + 1] = [ev |-> "set_timeout", timeout |-> handle.timeout]
    /\ handle.timeout > 0 => Count("set_timeout") = 0

\* C10 witness: a session with timeout 0 read under 5 and was set back to 0.
C10_Witness ==
  /\ pc = "exit" /\ handle.timeout = 0
  /\ events = << [ev |-> "open", timeout |-> 0], [ev |-> "write", timeout |-> 0],
                 [ev |-> "set_timeout", timeout |-> 5], [ev |-> "readline", timeout |-> 5],
                 [ev |-> "set_timeout", timeout |-> 0] >>

\* ------------------------------------------------------------ the flattener
\* The leaves of a nested dictionary: key, nesting level, path of keys from the
\* top, value.
RECURSIVE Occurrences(_, _, _)
Occurrences(d, depth, path) ==
  UNION {IF d[k].leaf
           THEN {[key |-> k, depth |-> depth, path |-> Append(path, k), v |-> d[k].v]}
           ELSE Occurrences(d[k].d, depth + 1, Append(path, k)) : k \in DOMAIN d}

Leaves == Occurrences(arg_dictionary, 0, <<>>)
LeafKeys == {o.key : o \in Leaves}
Repeated == \E o1, o2 \in Leaves : o1 # o2 /\ o1.key = o2.key

\* Paths of equal length in alphabetical order.
PathBefore(p, q) ==
  \E i \in 1..Len(p) :
    /\ KeyRank(p[i]) < KeyRank(q[i])
    /\ \A j \in 1..(i - 1) : p[j] = q[j]

\* o1 has precedence over o2 by the documented 'superior' rule.
Superior(o1, o2) ==
  \/ o1.depth < o2.depth
  \/ o1.depth = o2.depth /\ PathBefore(o1.path, o2.path)

Flattened == rpc = "done" /\ raveled.err = ""

\* C7: under 'superior' the result holds, for every key, the value of its least
\* nested leaf, and among equally nested leaves that of the alphabetically
\* earlier one.
C7_SuperiorLeastNestedWins ==
  Flattened /\ lower(arg_conflict) = "superior" =>
    \A o \in Leaves :
      (\A o2 \in Leaves : o2.key = o.key /\ o2 # o => Superior(o, o2))
        => o.key \in DOMAIN raveled.d /\ raveled.d[o.key].v = o.v

\* C8: under 'raise' the flattener fails with the conflict error exactly when
\* some key is a leaf at two places of the input, and otherwise returns the
\* union of all leaf entries.
C8_RaiseOnRepeatedLeafKey ==
  rpc = "done" /\ arg_conflict = "raise" =>
    IF Repeated
      THEN raveled = Failed("RuntimeError_conflict")
      ELSE /\ raveled.err = ""
           /\ DOMAIN raveled.d = LeafKeys
           /\ \A o \in Leaves : raveled.d[o.key] = Leaf(o.v)

\* C8 witness: a key is a leaf at two nesting levels and 'raise' failed.
C8_Witness ==
  /\ rpc = "done" /\ arg_conflict = "raise"
  /\ \E o1, o2 \in Leaves : o1.key = o2.key /\ o1.depth < o2.depth
  /\ raveled = Failed("RuntimeError_conflict")

\* C9: whenever the flattener returns, no value of the output is a mapping,
\* the output's keys are exactly the keys that carry a leaf somewhere in the
\* input, each output value is a leaf value the input holds under that key,
\* and the empty input gives the empty output under every valid rule.
C9_OutputHoldsExactlyTheLeaves ==
  /\ Flattened =>
       /\ \A k \in DOMAIN raveled.d : raveled.d[k].leaf
       /\ DOMAIN raveled.d = LeafKeys
       /\ \A k \in DOMAIN raveled.d :
            \E o \in Leaves : o.key = k /\ raveled.d[k] = Leaf(o.v)
  /\ rpc = "done" /\ DOMAIN arg_dictionary = {} /\ lower(arg_conflict) \in ConflictRules =>
       Flattened /\ DOMAIN raveled.d = {}

\* C9 witness: a nested dictionary's key was discarded and its leaf kept.
C9_Witness ==
  /\ Flattened
  /\ "a" \in DOMAIN arg_dictionary /\ ~arg_dictionary["a"].leaf
  /\ "a" \notin DOMAIN raveled.d
  /\ "z" \in DOMAIN raveled.d

====
